---- MODULE Spec2Model ----
(***************************************************************************)
(* TCASDataset (tcas_loader.py): a split's list of video identifiers, the  *)
(* decoded frames of a video, and the annotation JSON of a video, loaded   *)
(* on demand and kept in a per-instance cache.                             *)
(*                                                                         *)
(* Python values are modelled as follows.  A str is a sequence of          *)
(* one-character strings.  A dict is a function whose DOMAIN is its set of *)
(* keys.  A mutable object (the dict json.load builds) lives in a heap     *)
(* cell and is passed around by address, so that an alias is visible.      *)
(* An operation runs to completion in one step (the module is              *)
(* single-threaded); what the caller observes of it is recorded in `last`. *)
(***************************************************************************)
EXTENDS Integers, Sequences, FiniteSets, TLC

VARIABLES
    splitLines,   \* the lines of <root>/metadata/<split>_split.txt at construction
    video_ids,    \* self.video_ids
    transform,    \* self.transform
    cache,        \* self._annotation_cache: identifier -> heap address
    heap,         \* the dicts built by json.load, by address
    held,         \* addresses of the annotation dicts the caller was handed
    disk,         \* the video and annotation files, by path
    stats,        \* <root>/metadata/statistics.json
    first,        \* history: identifier -> address its first successful load returned
    loaded,       \* history: identifier -> content parsed from the file when it was cached
    events,       \* number of file changes and caller edits so far
    last          \* what the most recent operation did and returned

vars == <<splitLines, video_ids, transform, cache, heap, held, disk, stats,
          first, loaded, events, last>>

-----------------------------------------------------------------------------
(* Bound of the environment: how many times, in all, a file of the dataset *)
(* changes or the caller edits an annotation it was handed.                *)

MaxEvents == 1

-----------------------------------------------------------------------------
(* Strings.                                                                *)

Whitespace == {" ", "\n"}

CrashPrefix == <<"c", "r", "a", "s", "h", "_">>

CrashId == CrashPrefix \o <<"1">>

NormalId == <<"n", "o", "r", "m", "a", "l", "_", "1">>

Ids == {CrashId, NormalId}

\* str.startswith
startswith(s, p) ==
    /\ Len(s) >= Len(p)
    /\ SubSeq(s, 1, Len(p)) = p

RECURSIVE lstrip(_)
lstrip(s) ==
    IF s # <<>> /\ Head(s) \in Whitespace THEN lstrip(Tail(s)) ELSE s

RECURSIVE rstrip(_)
rstrip(s) ==
    IF s # <<>> /\ s[Len(s)] \in Whitespace
    THEN rstrip(SubSeq(s, 1, Len(s) - 1))
    ELSE s

\* str.strip
strip(s) == rstrip(lstrip(s))

RECURSIVE _load_split(_)
\* [line.strip() for line in f.readlines() if line.strip()]
_load_split(lines) ==
    IF lines = <<>> THEN <<>>
    ELSE IF strip(Head(lines)) # <<>>
         THEN <<strip(Head(lines))>> \o _load_split(Tail(lines))
         ELSE _load_split(Tail(lines))

\* The split files a dataset is constructed from.
SplitFiles ==
    { <<CrashId \o <<"\n">>, <<" ", "\n">>, <<" ">> \o NormalId \o <<" ", "\n">>>>,
      <<<<"\n">>, NormalId>> }

-----------------------------------------------------------------------------
(* Python values.                                                          *)

\* None
None == [t |-> "None"]

\* a value that is not None
Val(v) == [t |-> "val", v |-> v]

\* dict.get(key, default)
get(d, key, default) == IF key \in DOMAIN d THEN d[key] ELSE default

\* dict with one key removed (del d[key], d.pop(key))
without(d, key) == [k \in (DOMAIN d) \ {key} |-> d[k]]

\* dict after d[key] = v
with(d, key, v) == [k \in (DOMAIN d) \cup {key} |-> IF k = key THEN v ELSE d[k]]

-----------------------------------------------------------------------------
(* Files.  A path is <<tree, subdirectory, identifier>>.                   *)

Paths == {"videos", "annotations"} \X {"crash", "normal"} \X Ids

Absent == [kind |-> "absent"]

\* a file whose text is not JSON
Malformed == [kind |-> "text"]

JsonFile(v) == [kind |-> "json", val |-> v]

VideoFile(items) == [kind |-> "video", items |-> items]

\* os.path.exists
exists(file) == file.kind # "absent"

\* Per-frame annotation records.
FrameA == [frame_id |-> 1, risk_level |-> "low"]

FrameB == [frame_id |-> 1, risk_level |-> "high"]

FrameC == [frame_id |-> 2, risk_level |-> "high"]

FrameIds == {1, 3}

\* Annotation of a crash video: crash_frame, and two frames entries with frame_id 1.
AnnoCrash == [category |-> "crash", crash_frame |-> 2, frames |-> <<FrameA, FrameB, FrameC>>]

\* Annotation of a normal video: no crash_frame, no frames list.
AnnoNormal == [category |-> "normal"]

\* Annotation with category "normal" that carries a crash_frame, and an empty frames list.
AnnoNormalCF == [category |-> "normal", crash_frame |-> 1, frames |-> <<>>]

\* The decoder's stream: a frame is <<blue, green, red>>; <<>> is a read that
\* fails (ret false); a one-channel frame is what cvtColor rejects.
ReadFails == <<>>

Gray == <<5>>

VideoGood == <<<<1, 2, 3>>, <<3, 2, 1>>>>

VideoFault == <<<<1, 2, 3>>, ReadFails, <<3, 2, 1>>>>

\* A video whose second frame has a red sample of 0 and whose third is one-channel.
VideoBad == <<<<3, 2, 1>>, <<1, 2, 0>>, Gray>>

\* What a file of the dataset can be overwritten with.
AnnoFiles == {Absent, Malformed, JsonFile(AnnoNormalCF)}

VideoFiles == {Absent, VideoFile(VideoBad)}

StatsFiles == {Absent}

Statistics == [total_videos |-> 2]

\* The dataset as shipped: every file under the subdirectory its identifier names.
Fixture ==
    [p \in Paths |->
        IF p = <<"annotations", "crash", CrashId>> THEN JsonFile(AnnoCrash)
        ELSE IF p = <<"annotations", "normal", NormalId>> THEN JsonFile(AnnoNormal)
        ELSE IF p = <<"videos", "crash", CrashId>> THEN VideoFile(VideoGood)
        ELSE IF p = <<"videos", "normal", NormalId>> THEN VideoFile(VideoFault)
        ELSE Absent]

-----------------------------------------------------------------------------
(* Video-frame loading.                                                    *)

\* The path rule shared by videos and annotations.
PathOf(tree, video_id) ==
    IF startswith(video_id, CrashPrefix)
    THEN <<tree, "crash", video_id>>
    ELSE <<tree, "normal", video_id>>

\* cv2.cvtColor(frame, cv2.COLOR_BGR2RGB); it rejects a frame that has not 3 channels.
cvtColorRaises(frame) == Len(frame) # 3

cvtColor(frame) == <<frame[3], frame[2], frame[1]>>

\* The caller's transforms: none, or one that doubles every sample and raises
\* on a frame whose red sample is 0.
Transforms == {"none", "double"}

transformRaises(t, frame) == t = "double" /\ frame[1] = 0

applyTransform(t, frame) == [i \in DOMAIN frame |-> frame[i] + frame[i]]

RECURSIVE readLoop(_, _, _)
\* The while loop: the frames appended so far are `frames`; `items` is what the
\* decoder still holds.  cap.release() is reached only when the loop breaks.
readLoop(items, t, frames) ==
    IF items = <<>> \/ Head(items) = ReadFails
    THEN [outcome |-> "ok", frames |-> frames, cap |-> "released"]
    ELSE IF cvtColorRaises(Head(items))
    THEN [outcome |-> "cv2.error", frames |-> frames, cap |-> "open"]
    ELSE IF t # "none" /\ transformRaises(t, cvtColor(Head(items)))
    THEN [outcome |-> "TransformError", frames |-> frames, cap |-> "open"]
    ELSE readLoop(Tail(items), t,
                  Append(frames, IF t # "none"
                                 THEN applyTransform(t, cvtColor(Head(items)))
                                 ELSE cvtColor(Head(items))))

\* load_video_frames(video_id) on files d with transform t.
load_video_frames(d, t, video_id) ==
    LET video_path == PathOf("videos", video_id)
    IN  IF ~exists(d[video_path])
        THEN [outcome |-> "FileNotFoundError", frames |-> <<>>, cap |-> "none",
              io |-> <<<<"exists", video_path>>>>]
        ELSE LET r == readLoop(d[video_path].items, t, <<>>)
             IN  [outcome |-> r.outcome, frames |-> r.frames, cap |-> r.cap,
                  io |-> <<<<"exists", video_path>>, <<"VideoCapture", video_path>>>>]

-----------------------------------------------------------------------------
(* Annotation loading.                                                     *)

\* The address of a dict that does not exist yet: the n-th dict built for an
\* identifier lives at <<identifier, n>>.
fresh(h, video_id) ==
    <<video_id, Cardinality({a \in DOMAIN h : a[1] = video_id}) + 1>>

\* no address
NoAddr == <<>>

\* json.load
jsonRaises(file) == file.kind # "json"

\* load_annotation without the cache check: every call goes to the file.
load_annotation_nocache(c, h, d, video_id) ==
    LET anno_path == PathOf("annotations", video_id)
    IN  IF ~exists(d[anno_path])
        THEN [outcome |-> "FileNotFoundError", addr |-> NoAddr, cache |-> c, heap |-> h,
              io |-> <<<<"exists", anno_path>>>>]
        ELSE IF jsonRaises(d[anno_path])
        THEN [outcome |-> "JSONDecodeError", addr |-> NoAddr, cache |-> c, heap |-> h,
              io |-> <<<<"exists", anno_path>>, <<"open", anno_path>>>>]
        ELSE [outcome |-> "ok", addr |-> fresh(h, video_id),
              cache |-> with(c, video_id, fresh(h, video_id)),
              heap |-> with(h, fresh(h, video_id), d[anno_path].val),
              io |-> <<<<"exists", anno_path>>, <<"open", anno_path>>>>]

\* load_annotation that enters an empty dict in the cache before it parses the
\* file, and leaves it there when the parse fails.
load_annotation_early(c, h, d, video_id) ==
    LET anno_path == PathOf("annotations", video_id)
    IN  IF video_id \in DOMAIN c
        THEN [outcome |-> "ok", addr |-> c[video_id], cache |-> c, heap |-> h, io |-> <<>>]
        ELSE IF ~exists(d[anno_path])
        THEN [outcome |-> "FileNotFoundError", addr |-> NoAddr, cache |-> c, heap |-> h,
              io |-> <<<<"exists", anno_path>>>>]
        ELSE IF jsonRaises(d[anno_path])
        THEN [outcome |-> "JSONDecodeError", addr |-> NoAddr,
              cache |-> with(c, video_id, fresh(h, video_id)),
              heap |-> with(h, fresh(h, video_id), [k \in {} |-> 0]),
              io |-> <<<<"exists", anno_path>>, <<"open", anno_path>>>>]
        ELSE [outcome |-> "ok", addr |-> fresh(h, video_id),
              cache |-> with(c, video_id, fresh(h, video_id)),
              heap |-> with(h, fresh(h, video_id), d[anno_path].val),
              io |-> <<<<"exists", anno_path>>, <<"open", anno_path>>>>]

\* load_annotation(video_id) with cache c, heap h and files d: the outcome, the
\* address returned, the cache and the heap after the call, and the file
\* accesses made.
load_annotation(c, h, d, video_id) ==
    LET anno_path == PathOf("annotations", video_id)
    IN  IF video_id \in DOMAIN c
        THEN [outcome |-> "ok", addr |-> c[video_id], cache |-> c, heap |-> h, io |-> <<>>]
        ELSE IF ~exists(d[anno_path])
        THEN [outcome |-> "FileNotFoundError", addr |-> NoAddr, cache |-> c, heap |-> h,
              io |-> <<<<"exists", anno_path>>>>]
        ELSE IF jsonRaises(d[anno_path])
        THEN [outcome |-> "JSONDecodeError", addr |-> NoAddr, cache |-> c, heap |-> h,
              io |-> <<<<"exists", anno_path>>, <<"open", anno_path>>>>]
        ELSE [outcome |-> "ok", addr |-> fresh(h, video_id),
              cache |-> with(c, video_id, fresh(h, video_id)),
              heap |-> with(h, fresh(h, video_id), d[anno_path].val),
              io |-> <<<<"exists", anno_path>>, <<"open", anno_path>>>>]

RECURSIVE scanFrames_last(_, _)
\* The scan that keeps going after a match: it returns the last matching entry.
scanFrames_last(frames, frame_id) ==
    IF frames = <<>> THEN [outcome |-> "ok", ret |-> None]
    ELSE IF "frame_id" \notin DOMAIN frames[Len(frames)]
    THEN [outcome |-> "KeyError", ret |-> None]
    ELSE IF frames[Len(frames)]["frame_id"] = frame_id
    THEN [outcome |-> "ok", ret |-> Val(frames[Len(frames)])]
    ELSE scanFrames_last(SubSeq(frames, 1, Len(frames) - 1), frame_id)

RECURSIVE scanFrames(_, _)
\* for frame_anno in frames: if frame_anno['frame_id'] == frame_id: return frame_anno
scanFrames(frames, frame_id) ==
    IF frames = <<>> THEN [outcome |-> "ok", ret |-> None]
    ELSE IF "frame_id" \notin DOMAIN Head(frames) THEN [outcome |-> "KeyError", ret |-> None]
    ELSE IF Head(frames)["frame_id"] = frame_id THEN [outcome |-> "ok", ret |-> Val(Head(frames))]
    ELSE scanFrames(Tail(frames), frame_id)

\* get_frame_annotation, on the annotation dict load_annotation returned
get_frame_annotation(annotation, frame_id) ==
    scanFrames(get(annotation, "frames", <<>>), frame_id)

\* is_crash_video, on the annotation dict load_annotation returned ("" stands for
\* the None that get returns for a dict without the key)
is_crash_video(annotation) ==
    get(annotation, "category", "") = "crash"

\* get_crash_frame, on the annotation dict load_annotation returned
get_crash_frame(annotation) ==
    IF "crash_frame" \in DOMAIN annotation THEN Val(annotation["crash_frame"]) ELSE None

\* get_statistics on the statistics file
get_statistics(file) ==
    IF ~exists(file) THEN [outcome |-> "FileNotFoundError", ret |-> None]
    ELSE IF jsonRaises(file) THEN [outcome |-> "JSONDecodeError", ret |-> None]
    ELSE [outcome |-> "ok", ret |-> Val(file.val)]

-----------------------------------------------------------------------------
(* Indexed retrieval.                                                      *)

\* Subscripting that takes idx as a position counted from 1.
subscript_from_one(list, idx) ==
    IF idx >= 1 /\ idx <= Len(list) THEN [outcome |-> "ok", v |-> list[idx]]
    ELSE IF idx <= 0 /\ idx >= 0 - Len(list) + 1 THEN [outcome |-> "ok", v |-> list[Len(list) + idx]]
    ELSE [outcome |-> "IndexError", v |-> <<>>]

\* list[idx]: a negative idx counts from the end; IndexError outside -len..len-1
subscript(list, idx) ==
    IF idx >= 0 /\ idx < Len(list) THEN [outcome |-> "ok", v |-> list[idx + 1]]
    ELSE IF idx < 0 /\ idx >= 0 - Len(list) THEN [outcome |-> "ok", v |-> list[Len(list) + idx + 1]]
    ELSE [outcome |-> "IndexError", v |-> <<>>]

\* __getitem__ that loads the annotation before the frames.
getitem_annotation_first(c, h, d, t, ids, idx) ==
    LET e == subscript(ids, idx)
        v == load_video_frames(d, t, e.v)
        a == load_annotation(c, h, d, e.v)
        skip == [outcome |-> "none", addr |-> NoAddr, cache |-> c, heap |-> h, io |-> <<>>]
        novideo == [outcome |-> "none", frames |-> <<>>, cap |-> "none", io |-> <<>>]
    IN  IF e.outcome # "ok"
        THEN [outcome |-> e.outcome, stage |-> "index", id |-> <<>>, ret |-> None,
              video |-> novideo, anno |-> skip]
        ELSE IF a.outcome # "ok"
        THEN [outcome |-> a.outcome, stage |-> "annotation", id |-> e.v, ret |-> None,
              video |-> novideo, anno |-> a]
        ELSE IF v.outcome # "ok"
        THEN [outcome |-> v.outcome, stage |-> "video", id |-> e.v, ret |-> None,
              video |-> v, anno |-> a]
        ELSE [outcome |-> "ok", stage |-> "done", id |-> e.v,
              ret |-> Val([video_id |-> e.v, frames |-> v.frames, annotation |-> a.addr]),
              video |-> v, anno |-> a]

\* __getitem__(idx): the element, then the frames, then the annotation; an
\* exception at one stage ends the call there.
getitem(c, h, d, t, ids, idx) ==
    LET e == subscript(ids, idx)
        v == load_video_frames(d, t, e.v)
        a == load_annotation(c, h, d, e.v)
        skip == [outcome |-> "none", addr |-> NoAddr, cache |-> c, heap |-> h, io |-> <<>>]
    IN  IF e.outcome # "ok"
        THEN [outcome |-> e.outcome, stage |-> "index", id |-> <<>>, ret |-> None,
              video |-> [outcome |-> "none", frames |-> <<>>, cap |-> "none", io |-> <<>>],
              anno |-> skip]
        ELSE IF v.outcome # "ok"
        THEN [outcome |-> v.outcome, stage |-> "video", id |-> e.v, ret |-> None,
              video |-> v, anno |-> skip]
        ELSE IF a.outcome # "ok"
        THEN [outcome |-> a.outcome, stage |-> "annotation", id |-> e.v, ret |-> None,
              video |-> v, anno |-> a]
        ELSE [outcome |-> "ok", stage |-> "done", id |-> e.v,
              ret |-> Val([video_id |-> e.v, frames |-> v.frames, annotation |-> a.addr]),
              video |-> v, anno |-> a]

-----------------------------------------------------------------------------
(* The state machine.                                                      *)

EmptyDict == [k \in {} |-> 0]

\* An observation in which nothing happened; each action fills in its fields.
\*   op, idx, id      the operation and its arguments (id: the identifier it resolved)
\*   outcome, ret     "ok" and the value returned, or the exception raised
\*   stage            how far __getitem__ got
\*   cap, frames      the decoder handle of this call and the frames it appended
\*   annoCalled, annoOutcome, anno, annoIO   the load_annotation call made inside
\*   warm             an earlier load_annotation of id had succeeded before this call
\*   again            the operation before this one was a successful get of the same idx
Quiet ==
    [op |-> "none", idx |-> 0, id |-> <<>>, fid |-> 0, outcome |-> "ok", ret |-> None,
     stage |-> "none", cap |-> "none", frames |-> <<>>, videoIO |-> <<>>,
     annoCalled |-> FALSE, annoOutcome |-> "none", anno |-> NoAddr, annoIO |-> <<>>,
     warm |-> FALSE, again |-> FALSE]

Init ==
    /\ splitLines \in SplitFiles
    /\ video_ids = _load_split(splitLines)
    /\ transform \in Transforms
    /\ cache = EmptyDict
    /\ heap = EmptyDict
    /\ held = {}
    /\ disk = Fixture
    /\ stats = JsonFile(Statistics)
    /\ first = EmptyDict
    /\ loaded = EmptyDict
    /\ events = 0
    /\ last = [Quiet EXCEPT !.op = "init"]

\* What a load_annotation call r for video_id leaves in the instance and in the histories.
AnnoEffects(r, video_id) ==
    /\ cache' = r.cache
    /\ heap' = r.heap
    /\ first' = IF r.outcome = "ok" /\ video_id \notin DOMAIN first
                THEN with(first, video_id, r.addr)
                ELSE first
    /\ loaded' = IF /\ video_id \in DOMAIN r.cache
                   /\ (video_id \notin DOMAIN cache \/ cache[video_id] # r.cache[video_id])
                 THEN with(loaded, video_id, r.heap[r.cache[video_id]])
                 ELSE loaded

\* The fields of an observation that describe the load_annotation call r.
AnnoObs(obs, r, video_id) ==
    [obs EXCEPT !.id = video_id, !.annoCalled = TRUE, !.annoOutcome = r.outcome,
                !.anno = r.addr, !.annoIO = r.io, !.warm = video_id \in DOMAIN first]

\* len(dataset)
Size ==
    /\ last' = [Quiet EXCEPT !.op = "len", !.ret = Val(Len(video_ids))]
    /\ UNCHANGED <<splitLines, video_ids, transform, cache, heap, held, disk, stats,
                   first, loaded, events>>

\* dataset[idx]
GetItem(idx) ==
    LET g == getitem(cache, heap, disk, transform, video_ids, idx)
        obs == [Quiet EXCEPT !.op = "get", !.idx = idx, !.id = g.id,
                             !.outcome = g.outcome, !.ret = g.ret, !.stage = g.stage,
                             !.cap = g.video.cap, !.frames = g.video.frames,
                             !.videoIO = g.video.io,
                             !.again = (last.op = "get" /\ last.idx = idx
                                        /\ last.outcome = "ok")]
    IN  /\ IF g.anno.outcome # "none"
           THEN /\ AnnoEffects(g.anno, g.id)
                /\ last' = AnnoObs(obs, g.anno, g.id)
           ELSE /\ UNCHANGED <<cache, heap, first, loaded>>
                /\ last' = obs
        /\ held' = IF g.outcome = "ok" THEN held \cup {g.anno.addr} ELSE held
        /\ UNCHANGED <<splitLines, video_ids, transform, disk, stats, events>>

\* dataset.load_video_frames(video_id)
LoadVideoFrames(video_id) ==
    LET v == load_video_frames(disk, transform, video_id)
    IN  /\ last' = [Quiet EXCEPT !.op = "load_video_frames", !.id = video_id,
                                 !.outcome = v.outcome,
                                 !.ret = IF v.outcome = "ok" THEN Val(v.frames) ELSE None,
                                 !.cap = v.cap, !.frames = v.frames, !.videoIO = v.io]
        /\ UNCHANGED <<splitLines, video_ids, transform, cache, heap, held, disk, stats,
                       first, loaded, events>>

\* dataset.load_annotation(video_id)
LoadAnnotation(video_id) ==
    LET r == load_annotation(cache, heap, disk, video_id)
    IN  /\ AnnoEffects(r, video_id)
        /\ held' = IF r.outcome = "ok" THEN held \cup {r.addr} ELSE held
        /\ last' = AnnoObs([Quiet EXCEPT !.op = "load_annotation", !.outcome = r.outcome,
                                         !.ret = IF r.outcome = "ok" THEN Val(r.addr) ELSE None],
                           r, video_id)
        /\ UNCHANGED <<splitLines, video_ids, transform, disk, stats, events>>

\* dataset.get_frame_annotation(video_id, frame_id)
GetFrameAnnotation(video_id, frame_id) ==
    LET r == load_annotation(cache, heap, disk, video_id)
        f == get_frame_annotation(r.heap[r.addr], frame_id)
    IN  /\ AnnoEffects(r, video_id)
        /\ last' = AnnoObs([Quiet EXCEPT !.op = "get_frame_annotation", !.fid = frame_id,
                                         !.outcome = IF r.outcome = "ok" THEN f.outcome
                                                     ELSE r.outcome,
                                         !.ret = IF r.outcome = "ok" THEN f.ret ELSE None],
                           r, video_id)
        /\ UNCHANGED <<splitLines, video_ids, transform, held, disk, stats, events>>

\* dataset.is_crash_video(video_id)
IsCrashVideo(video_id) ==
    LET r == load_annotation(cache, heap, disk, video_id)
    IN  /\ AnnoEffects(r, video_id)
        /\ last' = AnnoObs([Quiet EXCEPT !.op = "is_crash_video", !.outcome = r.outcome,
                                         !.ret = IF r.outcome = "ok"
                                                 THEN Val(is_crash_video(r.heap[r.addr]))
                                                 ELSE None],
                           r, video_id)
        /\ UNCHANGED <<splitLines, video_ids, transform, held, disk, stats, events>>

\* dataset.get_crash_frame(video_id)
GetCrashFrame(video_id) ==
    LET r == load_annotation(cache, heap, disk, video_id)
    IN  /\ AnnoEffects(r, video_id)
        /\ last' = AnnoObs([Quiet EXCEPT !.op = "get_crash_frame", !.outcome = r.outcome,
                                         !.ret = IF r.outcome = "ok"
                                                 THEN get_crash_frame(r.heap[r.addr])
                                                 ELSE None],
                           r, video_id)
        /\ UNCHANGED <<splitLines, video_ids, transform, held, disk, stats, events>>

\* dataset.get_statistics()
GetStatistics ==
    LET r == get_statistics(stats)
    IN  /\ last' = [Quiet EXCEPT !.op = "get_statistics", !.outcome = r.outcome, !.ret = r.ret]
        /\ UNCHANGED <<splitLines, video_ids, transform, cache, heap, held, disk, stats,
                       first, loaded, events>>

\* What a caller can do to a dict it holds: remove a key, set the category,
\* drop the first entry of the frames list.
Edits(d) ==
    ( {without(d, k) : k \in DOMAIN d}
      \cup {with(d, "category", c) : c \in {"crash", "normal"}}
      \cup (IF "frames" \in DOMAIN d /\ d["frames"] # <<>>
            THEN {with(d, "frames", Tail(d["frames"]))}
            ELSE {}) ) \ {d}

\* The caller edits, in place, an annotation dict it was handed.
CallerEdits(addr, d) ==
    /\ events < MaxEvents
    /\ heap' = [heap EXCEPT ![addr] = d]
    /\ events' = events + 1
    /\ last' = [Quiet EXCEPT !.op = "edit"]
    /\ UNCHANGED <<splitLines, video_ids, transform, cache, held, disk, stats, first, loaded>>

\* A file of the dataset is deleted or overwritten.
FileChanges(path, file) ==
    /\ events < MaxEvents
    /\ exists(Fixture[path])
    /\ disk[path] # file
    /\ disk' = [disk EXCEPT ![path] = file]
    /\ events' = events + 1
    /\ last' = [Quiet EXCEPT !.op = "file"]
    /\ UNCHANGED <<splitLines, video_ids, transform, cache, heap, held, stats, first, loaded>>

\* The statistics file is deleted or overwritten.
StatsChanges(file) ==
    /\ events < MaxEvents
    /\ stats # file
    /\ stats' = file
    /\ events' = events + 1
    /\ last' = [Quiet EXCEPT !.op = "file"]
    /\ UNCHANGED <<splitLines, video_ids, transform, cache, heap, held, disk, first, loaded>>

Next ==
    \/ Size
    \/ \E idx \in (0 - Len(video_ids) - 1) .. Len(video_ids) : GetItem(idx)
    \/ \E video_id \in Ids : LoadVideoFrames(video_id)
    \/ \E video_id \in Ids : LoadAnnotation(video_id)
    \/ \E video_id \in Ids, frame_id \in FrameIds : GetFrameAnnotation(video_id, frame_id)
    \/ \E video_id \in Ids : IsCrashVideo(video_id)
    \/ \E video_id \in Ids : GetCrashFrame(video_id)
    \/ GetStatistics
    \/ \E addr \in held : \E d \in Edits(heap[addr]) : CallerEdits(addr, d)
    \/ \E path \in Paths : \E file \in (IF path[1] = "videos" THEN VideoFiles ELSE AnnoFiles) :
          FileChanges(path, file)
    \/ \E file \in StatsFiles : StatsChanges(file)

Spec == Init /\ [][Next]_vars

-----------------------------------------------------------------------------
(* Properties.                                                             *)

\* The most recent operation was dataset[idx] with 0 <= idx < size.
ValidGet == last.op = "get" /\ last.idx >= 0 /\ last.idx < Len(video_ids)

\* The annotation load of the most recent operation failed.
AnnoFailed == last.annoCalled /\ last.annoOutcome \in {"FileNotFoundError", "JSONDecodeError"}

\* The frames a decoder yields before its stream ends or a read fails.
RECURSIVE Decodable(_)
Decodable(items) ==
    IF items = <<>> \/ Head(items) = ReadFails THEN <<>>
    ELSE <<Head(items)>> \o Decodable(Tail(items))

\* The positions of the frames entries of annotation a whose frame_id is fid.
Matches(a, fid) ==
    {i \in 1 .. Len(get(a, "frames", <<>>)) : get(a, "frames", <<>>)[i]["frame_id"] = fid}

\* C1: dataset[idx] with idx outside 0 <= idx < size raises IndexError and
\* returns no record; in particular for idx = -1 and idx = size.
C1_OutOfRangeRaises ==
    (last.op = "get" /\ (last.idx < 0 \/ last.idx >= Len(video_ids)))
        => (last.outcome = "IndexError" /\ last.ret = None)

\* C2: once load_annotation(id) has succeeded, every later load_annotation(id),
\* whichever operation makes it, succeeds, touches no file, and returns
\* content equal to that of the first result.
C2_CachedLoadTouchesNoFile ==
    (last.annoCalled /\ last.warm)
        => /\ last.annoOutcome = "ok"
           /\ last.annoIO = <<>>
           /\ heap[last.anno] = heap[first[last.id]]

\* dataset[idx] reached load_annotation for an identifier loaded before, whose
\* annotation file is gone by now.
C2_Witness ==
    /\ last.op = "get"
    /\ last.annoCalled
    /\ last.warm
    /\ ~exists(disk[PathOf("annotations", last.id)])

\* C3: whatever the caller does to an annotation it was handed, the content the
\* cache holds for an identifier, and the content a later load of it
\* returns, equal what was parsed from its file.
C3_CallerCannotChangeCache ==
    /\ \A id \in DOMAIN cache : heap[cache[id]] = loaded[id]
    /\ (last.annoCalled /\ last.annoOutcome = "ok") => heap[last.anno] = loaded[last.id]

\* C4: a load_annotation that fails (file absent, or not JSON) leaves the cache
\* and the cached dicts as they were, with no entry for the identifier.
C4_FailedLoadKeepsCache ==
    [][AnnoFailed' => (cache' = cache /\ heap' = heap /\ last'.id \notin DOMAIN cache')]_vars

\* A load failed on a file that is not JSON while another identifier was cached.
C4_Witness ==
    /\ last.annoCalled
    /\ last.annoOutcome = "JSONDecodeError"
    /\ DOMAIN cache # {}

\* C5: no call ends with the decoder handle it opened still open.
C5_DecoderReleased ==
    last.cap # "open"

\* C6: dataset[i] for a valid i returns the i-th identifier of the split file as
\* read at construction; and a dataset[i] that directly follows a successful
\* dataset[i] succeeds with equal frames and an equal annotation.
C6_GetIsStable ==
    [][ValidGet' =>
          /\ last'.outcome = "ok" =>
                last'.ret.v.video_id = _load_split(splitLines)[last'.idx + 1]
          /\ (last.op = "get" /\ last.idx = last'.idx /\ last.outcome = "ok") =>
                /\ last'.outcome = "ok"
                /\ last'.ret.v.video_id = last.ret.v.video_id
                /\ last'.ret.v.frames = last.ret.v.frames
                /\ heap'[last'.ret.v.annotation] = heap[last.ret.v.annotation]]_vars

\* A successful dataset[i] directly after a successful dataset[i], i valid.
C6_Witness ==
    ValidGet /\ last.again /\ last.outcome = "ok"

\* C7: an identifier that has a cache entry keeps it, with the same content, in
\* every later state.
C7_EntriesNeverChange ==
    [][\A id \in DOMAIN cache :
          id \in DOMAIN cache' /\ heap'[cache'[id]] = heap[cache[id]]]_vars

\* C8: get_crash_frame returns None when the annotation's category is "normal"
\* and the crash_frame value when it is "crash".
C8_CrashFrameByCategory ==
    (last.op = "get_crash_frame" /\ last.outcome = "ok")
        => /\ get(heap[last.anno], "category", "") = "normal" => last.ret = None
           /\ get(heap[last.anno], "category", "") = "crash" =>
                 /\ "crash_frame" \in DOMAIN heap[last.anno]
                 /\ last.ret = Val(heap[last.anno]["crash_frame"])

\* C9: when the annotation loads, get_frame_annotation raises nothing and
\* returns the first frames entry, in stored order, whose frame_id is the one
\* asked for, and None when there is none (no frames list, or an empty one).
C9_FirstMatchOrNone ==
    (last.op = "get_frame_annotation" /\ last.annoOutcome = "ok")
        => LET a == heap[last.anno]
               m == Matches(a, last.fid)
           IN  /\ last.outcome = "ok"
               /\ m = {} => last.ret = None
               /\ m # {} => last.ret = Val(a["frames"][CHOOSE i \in m : \A j \in m : i <= j])

\* A lookup that had two entries to choose from.
C9_Witness ==
    /\ last.op = "get_frame_annotation"
    /\ last.annoOutcome = "ok"
    /\ Cardinality(Matches(heap[last.anno], last.fid)) > 1

\* C10: dataset[idx] with the video file missing raises FileNotFoundError
\* without calling load_annotation and leaves the cache as it was; and when it
\* fails in load_annotation, the decoder had yielded every frame and was released.
C10_FramesBeforeAnnotation ==
    [][(last'.op = "get" /\ last'.stage # "index") =>
          /\ ~exists(disk[PathOf("videos", last'.id)]) =>
                /\ last'.outcome = "FileNotFoundError"
                /\ last'.stage = "video"
                /\ ~last'.annoCalled
                /\ cache' = cache
                /\ heap' = heap
          /\ AnnoFailed' =>
                /\ last'.stage = "annotation"
                /\ last'.cap = "released"
                /\ Len(last'.frames) = Len(Decodable(disk[PathOf("videos", last'.id)].items))]_vars

\* dataset[idx] failed on the missing video of an identifier that is not cached
\* and whose annotation file exists.
C10_Witness ==
    /\ last.op = "get"
    /\ last.stage = "video"
    /\ last.outcome = "FileNotFoundError"
    /\ last.id \notin DOMAIN cache
    /\ exists(disk[PathOf("annotations", last.id)])

\* dataset[idx] failed on the missing annotation file after decoding the video.
C10_WitnessAnnotation ==
    /\ last.op = "get"
    /\ last.stage = "annotation"
    /\ last.outcome = "FileNotFoundError"
    /\ last.frames # <<>>

====
